---- MODULE Spec2Model ----
(***************************************************************************)
(* kanjitest: a terminal dual-pane flashcard viewer (src/src/main.rs).     *)
(* The model covers the whole process: argument check, terminal setup,     *)
(* Program::new / update_file, the run loop (draw, event read, key_input,  *)
(* mouse_input) and the restore_terminal! / restore_panic! exit paths.     *)
(* Text is a sequence of one-character strings.  u16 arithmetic keeps its  *)
(* width: with overflow checks (debug build) an overflow panics, without   *)
(* them (release build) it wraps modulo 2^16.                              *)
(***************************************************************************)
EXTENDS Integers, Sequences, FiniteSets, TLC

VARIABLES
    overflow_checks, \* build profile: TRUE = arithmetic overflow panics
    argc,            \* args.len() in main
    file,            \* what the path argument resolves to
    pc,              \* position of main / Program::run
    raw_mode,        \* terminal raw mode enabled
    alt_screen,      \* alternate screen and mouse capture enabled
    restores,        \* number of restore_terminal! expansions executed
    status,          \* how the process ended ("running" until then)
    error,           \* the Error value carried to the exit path
    left_side, right_side, length,          \* Program: document fields
    hidden, reverse, scroll, space, leave,  \* Program: view fields
    event,           \* the last event returned by event::read()
    frame,           \* what the last draw rendered
    hist             \* observations of the run so far (see NoHist)

vars == <<overflow_checks, argc, file, pc, raw_mode, alt_screen, restores,
          status, error, left_side, right_side, length, hidden, reverse,
          scroll, space, leave, event, frame, hist>>

termVars == <<raw_mode, alt_screen, restores>>
docVars  == <<left_side, right_side, length>>
viewVars == <<hidden, reverse, scroll, space, leave>>

----------------------------------------------------------------------------
(* Bounds of the model *)

MaxLines  == 5     \* files of the session have 0..MaxLines lines
MaxLen    == 4     \* splitter inputs are texts of at most MaxLen characters
ScrollCap == 8     \* scroll events are explored while scroll <= ScrollCap
SpaceCap  == 100   \* space events are explored while space <= SpaceCap
MaxStreak == 10    \* hist.streak stops counting after MaxStreak events

(* Program constants *)

U16 == 65536
SPACE_CHANGE_AMOUT    == 5
DEFALUT_SPACE         == 40
MOUSE_SCROLL_AMOUNT   == 5
KEYBOARD_SCROLL_AMOUT == 1

DOWN_KEY           == "j"
UP_KEY             == "k"
HIDE_KEY           == " "
REVERSE_KEY        == "r"
EXIT_KEY           == "Esc"
INCREASE_SPACE_KEY == "h"
DECREASE_SPACE_KEY == "l"

\* KeyCode values delivered by the terminal ("x" stands for any unbound key)
KeyCodes == {DOWN_KEY, UP_KEY, HIDE_KEY, REVERSE_KEY, EXIT_KEY,
             INCREASE_SPACE_KEY, DECREASE_SPACE_KEY,
             "Up", "Down", "Left", "Right", "x"}
\* MouseEventKind values ("Moved" stands for any non-scroll kind)
MouseKinds == {"ScrollUp", "ScrollDown", "Moved"}

----------------------------------------------------------------------------
(* u16 arithmetic *)

AddU16(a, b) == [val |-> (a + b) % U16, overflow |-> a + b >= U16]
SubU16(a, b) == [val |-> (a - b) % U16, overflow |-> a < b]

----------------------------------------------------------------------------
(* Text *)

NL == "\n"
CR == "\r"
Alphabet == {":", "-", "a", NL, CR}

RECURSIVE TextsOfLen(_)
TextsOfLen(n) ==
    IF n = 0 THEN {<<>>}
    ELSE {Append(t, c) : t \in TextsOfLen(n - 1), c \in Alphabet}

Texts == UNION {TextsOfLen(n) : n \in 0..MaxLen}

Contains(line, c) == \E i \in 1..Len(line) : line[i] = c

StripCR(line) ==
    IF Len(line) > 0 /\ line[Len(line)] = CR
    THEN SubSeq(line, 1, Len(line) - 1)
    ELSE line

\* str::lines(): split at "\n" (a "\r" directly before it belongs to the
\* line ending); text after the last "\n" is a line only if it is non-empty.
RECURSIVE LinesFrom(_, _, _, _)
LinesFrom(s, i, cur, acc) ==
    IF i > Len(s)
    THEN IF cur = <<>> THEN acc ELSE Append(acc, cur)
    ELSE IF s[i] = NL
         THEN LinesFrom(s, i + 1, <<>>, Append(acc, StripCR(cur)))
         ELSE LinesFrom(s, i + 1, Append(cur, s[i]), acc)

Lines(s) == LinesFrom(s, 1, <<>>, <<>>)

\* the line test of the left-side loop
IsLeftLine(line) == Contains(line, ":") \/ line = <<"-">>
\* the right-side test without the "-" case
IsRightLine_NoDash(line) == ~Contains(line, ":")

\* the line test of the right-side loop
IsRightLine(line) == ~Contains(line, ":") /\ line # <<"-">>

RECURSIVE BuildSide(_, _, _)
BuildSide(lines, i, keepLeft) ==
    IF i > Len(lines) THEN <<>>
    ELSE LET line == lines[i]
             keep == IF keepLeft THEN IsLeftLine(line) ELSE IsRightLine(line)
         IN  (IF keep THEN line ELSE <<>>) \o <<NL>>
             \o BuildSide(lines, i + 1, keepLeft)

\* the three values update_file assigns, from the content it read
SplitLeft(content)   == BuildSide(Lines(content), 1, TRUE)
SplitRight(content)  == BuildSide(Lines(content), 1, FALSE)
SplitLength(content) == Len(Lines(content)) % U16

----------------------------------------------------------------------------
(* The files of a session *)

Deck == << <<"a", ":">>, <<"a">>, <<"-">>, <<>>, <<"-", "a">>, <<":">> >>

RECURSIVE Content(_)
Content(n) ==
    IF n = 0 THEN <<>>
    ELSE Content(n - 1) \o Deck[((n - 1) % Len(Deck)) + 1] \o <<NL>>

\* what File::open / read_to_string can give for the path argument
FileOutcomes ==
    {[kind |-> "open_err", content |-> <<>>],
     [kind |-> "read_err", content |-> <<>>]}
    \cup {[kind |-> "ok", content |-> Content(n)] : n \in 0..MaxLines}

----------------------------------------------------------------------------
(* Program: the pure part of the methods *)

\* the contents a file of the model can have
Documents == Texts \cup {Content(n) : n \in 0..MaxLines}

\* what update_file computes from each content (computed once)
SplitOf ==
    [c \in Documents |->
        [left_side |-> SplitLeft(c), right_side |-> SplitRight(c),
         length |-> SplitLength(c)]]

\* the Program value as a record (fault: an arithmetic overflow happened)
Prog == [hidden |-> hidden, reverse |-> reverse, scroll |-> scroll,
         space |-> space, length |-> length, leave |-> leave,
         fault |-> FALSE]

scroll_up(p, amount) ==
    IF p.scroll >= amount
    THEN [p EXCEPT !.scroll = SubU16(p.scroll, amount).val]
    ELSE [p EXCEPT !.scroll = 0]

\* scroll_down clamping to length instead of length - 1
scroll_down_ClampToLength(p, amount) ==
    LET sum == AddU16(p.scroll, amount) IN
    IF sum.overflow /\ overflow_checks
    THEN [p EXCEPT !.fault = TRUE]
    ELSE IF sum.val > p.length
         THEN [p EXCEPT !.scroll = p.length]
         ELSE [p EXCEPT !.scroll = sum.val]

scroll_down(p, amount) ==
    LET sum == AddU16(p.scroll, amount) IN
    IF sum.overflow /\ overflow_checks
    THEN [p EXCEPT !.fault = TRUE]
    ELSE IF sum.val > p.length
         THEN LET d == SubU16(p.length, 1) IN
              [p EXCEPT !.scroll = d.val, !.fault = d.overflow]
         ELSE [p EXCEPT !.scroll = sum.val]

IncreaseSpaceField(p) ==
    LET r == AddU16(p.space, SPACE_CHANGE_AMOUT) IN
    [p EXCEPT !.space = r.val, !.fault = r.overflow]

DecreaseSpaceField(p) ==
    LET r == SubU16(p.space, SPACE_CHANGE_AMOUT) IN
    [p EXCEPT !.space = r.val, !.fault = r.overflow]

\* key_input where every unbound key also leaves the program
key_input_AnyKeyLeaves(p, key) ==
    CASE key = HIDE_KEY           -> [p EXCEPT !.hidden = ~p.hidden]
      [] key = UP_KEY             -> scroll_up(p, KEYBOARD_SCROLL_AMOUT)
      [] key = "Up"               -> scroll_up(p, KEYBOARD_SCROLL_AMOUT)
      [] key = DOWN_KEY           -> scroll_down(p, KEYBOARD_SCROLL_AMOUT)
      [] key = "Down"             -> scroll_down(p, KEYBOARD_SCROLL_AMOUT)
      [] key = DECREASE_SPACE_KEY -> IncreaseSpaceField(p)
      [] key = "Right"            -> IncreaseSpaceField(p)
      [] key = INCREASE_SPACE_KEY -> DecreaseSpaceField(p)
      [] key = "Left"             -> DecreaseSpaceField(p)
      [] key = REVERSE_KEY        -> [p EXCEPT !.reverse = ~p.reverse]
      [] OTHER                    -> [p EXCEPT !.leave = TRUE]

\* key_input where the hide key only ever hides
key_input_HideSets(p, key) ==
    CASE key = HIDE_KEY           -> [p EXCEPT !.hidden = TRUE]
      [] key = UP_KEY             -> scroll_up(p, KEYBOARD_SCROLL_AMOUT)
      [] key = "Up"               -> scroll_up(p, KEYBOARD_SCROLL_AMOUT)
      [] key = DOWN_KEY           -> scroll_down(p, KEYBOARD_SCROLL_AMOUT)
      [] key = "Down"             -> scroll_down(p, KEYBOARD_SCROLL_AMOUT)
      [] key = DECREASE_SPACE_KEY -> IncreaseSpaceField(p)
      [] key = "Right"            -> IncreaseSpaceField(p)
      [] key = INCREASE_SPACE_KEY -> DecreaseSpaceField(p)
      [] key = "Left"             -> DecreaseSpaceField(p)
      [] key = REVERSE_KEY        -> [p EXCEPT !.reverse = ~p.reverse]
      [] key = EXIT_KEY           -> [p EXCEPT !.leave = TRUE]
      [] OTHER                    -> p

key_input(p, key) ==
    CASE key = HIDE_KEY           -> [p EXCEPT !.hidden = ~p.hidden]
      [] key = UP_KEY             -> scroll_up(p, KEYBOARD_SCROLL_AMOUT)
      [] key = "Up"               -> scroll_up(p, KEYBOARD_SCROLL_AMOUT)
      [] key = DOWN_KEY           -> scroll_down(p, KEYBOARD_SCROLL_AMOUT)
      [] key = "Down"             -> scroll_down(p, KEYBOARD_SCROLL_AMOUT)
      [] key = DECREASE_SPACE_KEY -> IncreaseSpaceField(p)
      [] key = "Right"            -> IncreaseSpaceField(p)
      [] key = INCREASE_SPACE_KEY -> DecreaseSpaceField(p)
      [] key = "Left"             -> DecreaseSpaceField(p)
      [] key = REVERSE_KEY        -> [p EXCEPT !.reverse = ~p.reverse]
      [] key = EXIT_KEY           -> [p EXCEPT !.leave = TRUE]
      [] OTHER                    -> p

\* mouse_input with the two scroll directions exchanged
mouse_input_Swapped(p, kind) ==
    CASE kind = "ScrollUp"   -> scroll_down(p, MOUSE_SCROLL_AMOUNT)
      [] kind = "ScrollDown" -> scroll_up(p, MOUSE_SCROLL_AMOUNT)
      [] OTHER               -> p

\* mouse_input where every other mouse event scrolls up by one
mouse_input_MoveScrolls(p, kind) ==
    CASE kind = "ScrollUp"   -> scroll_up(p, MOUSE_SCROLL_AMOUNT)
      [] kind = "ScrollDown" -> scroll_down(p, MOUSE_SCROLL_AMOUNT)
      [] OTHER               -> scroll_up(p, KEYBOARD_SCROLL_AMOUT)

mouse_input(p, kind) ==
    CASE kind = "ScrollUp"   -> scroll_up(p, MOUSE_SCROLL_AMOUNT)
      [] kind = "ScrollDown" -> scroll_down(p, MOUSE_SCROLL_AMOUNT)
      [] OTHER               -> p

\* draw: which panes are rendered, and with what
ShowLeft(h, r)  == ~r \/ ~h
\* the right-side test written like the left-side one
ShowRight_SameAsLeft(h, r) == ~r \/ ~h
ShowRight(h, r) == r \/ ~h
NoPane == [shown |-> FALSE, text |-> <<>>, scroll |-> 0]
NoFrame == [drawn |-> FALSE, widths |-> <<0, 0>>, left |-> NoPane,
            right |-> NoPane]

\* a left pane whose text follows reverse
LeftPane_Swapping ==
    IF ShowLeft(hidden, reverse)
    THEN [shown |-> TRUE,
          text |-> IF reverse THEN right_side ELSE left_side,
          scroll |-> scroll]
    ELSE NoPane

LeftPane ==
    IF ShowLeft(hidden, reverse)
    THEN [shown |-> TRUE, text |-> left_side, scroll |-> scroll]
    ELSE NoPane

RightPane ==
    IF ShowRight(hidden, reverse)
    THEN [shown |-> TRUE, text |-> right_side, scroll |-> scroll]
    ELSE NoPane

RenderedFrame ==
    [drawn |-> TRUE,
     widths |-> <<space, SubU16(100, space).val>>,
     left |-> LeftPane, right |-> RightPane]

\* the panes the last draw rendered
FramePanes == {side \in {"left", "right"} : frame[side].shown}

\* Observations of the run, kept beside the program state:
\*   streak: the number of events handled so far if every one of them was
\*           a 'j' / arrow-down key (each a scroll_down(1)), else -1;
\*   draws:  the number of draws since the last event (or loop start);
\*   toggle: the run of equal hide / reverse keys that ends at the last
\*           event (count 1 or 2), with hidden, reverse and the rendered
\*           panes as they were before the first key of the run.
NoToggle == [key |-> "none", count |-> 0, hidden |-> FALSE,
             reverse |-> FALSE, panes |-> {}]
NoHist == [streak |-> 0, draws |-> 0, toggle |-> NoToggle]

NextStreak(type, code) ==
    IF /\ type = "Key" /\ code \in {DOWN_KEY, "Down"}
       /\ hist.streak >= 0 /\ hist.streak < MaxStreak
    THEN hist.streak + 1
    ELSE -1

NextToggle(type, code) ==
    IF type = "Key" /\ code \in {HIDE_KEY, REVERSE_KEY}
    THEN IF hist.toggle.key = code /\ hist.toggle.count = 1
         THEN [hist.toggle EXCEPT !.count = 2]
         ELSE [key |-> code, count |-> 1, hidden |-> hidden,
               reverse |-> reverse, panes |-> FramePanes]
    ELSE NoToggle

\* hist after the event (type, code) was handled
AfterEvent(type, code) ==
    [streak |-> NextStreak(type, code), draws |-> 0,
     toggle |-> NextToggle(type, code)]

\* hist after a draw
AfterDraw ==
    [hist EXCEPT !.draws = IF hist.draws < 2 THEN hist.draws + 1 ELSE 2]

\* a loop that never looks at leave
LoopCond_Forever == TRUE

\* the loop condition of run
LoopCond == ~leave

----------------------------------------------------------------------------
(* Initial state: the process starts, nothing is set up yet; the Program   *)
(* fields hold the values Program::new gives them before update_file.      *)

InitCommon ==
    /\ overflow_checks \in BOOLEAN
    /\ raw_mode = FALSE /\ alt_screen = FALSE /\ restores = 0
    /\ status = "running" /\ error = "none"
    /\ left_side = <<>> /\ right_side = <<>> /\ length = 0
    /\ hidden = FALSE /\ reverse = FALSE /\ scroll = 0
    /\ space = DEFALUT_SPACE /\ leave = FALSE
    /\ event = [type |-> "none", code |-> "none"]
    /\ frame = NoFrame
    /\ hist = NoHist

Init ==
    /\ InitCommon
    /\ argc \in 1..3
    /\ file \in FileOutcomes
    /\ pc = "main"

----------------------------------------------------------------------------
(* main *)

\* the process ends: Ok(()), exit(0), Err returned from main, or a panic
Exit(how, err) ==
    /\ pc' = "exit"
    /\ status' = how
    /\ error' = err

\* an argument check that only rejects a missing file name
CheckArgs_OnlyTooFew ==
    /\ pc = "main"
    /\ IF argc < 2
       THEN Exit("usage", error)
       ELSE pc' = "enable_raw_mode" /\ UNCHANGED <<status, error>>
    /\ UNCHANGED <<overflow_checks, hist, argc, file, termVars, docVars,
                   viewVars, event, frame>>

\* args.len() != 2: usage and exit(0)
CheckArgs ==
    /\ pc = "main"
    /\ IF argc # 2
       THEN Exit("usage", error)
       ELSE pc' = "enable_raw_mode" /\ UNCHANGED <<status, error>>
    /\ UNCHANGED <<overflow_checks, hist, argc, file, termVars, docVars, viewVars,
                   event, frame>>

\* enable_raw_mode().map_err(Error::Setup)?
EnableRawMode ==
    /\ pc = "enable_raw_mode"
    /\ \E ok \in BOOLEAN :
         IF ok
         THEN /\ raw_mode' = TRUE
              /\ pc' = "enter_alternate_screen"
              /\ UNCHANGED <<status, error>>
         ELSE /\ UNCHANGED raw_mode
              /\ Exit("err", "Setup")
    /\ UNCHANGED <<overflow_checks, hist, argc, file, alt_screen, restores,
                   docVars, viewVars, event, frame>>

\* execute!(stdout, EnterAlternateScreen, EnableMouseCapture)
\*     .map_err(Error::Setup)?
EnterAlternateScreen ==
    /\ pc = "enter_alternate_screen"
    /\ \E ok \in BOOLEAN :
         IF ok
         THEN /\ alt_screen' = TRUE
              /\ pc' = "terminal_new"
              /\ UNCHANGED <<status, error>>
         ELSE /\ alt_screen' \in BOOLEAN
              /\ Exit("err", "Setup")
    /\ UNCHANGED <<overflow_checks, hist, argc, file, raw_mode, restores,
                   docVars, viewVars, event, frame>>

\* Terminal::new(backend).map_err(Error::Setup)?
TerminalNew ==
    /\ pc = "terminal_new"
    /\ \E ok \in BOOLEAN :
         IF ok
         THEN pc' = "program_new" /\ UNCHANGED <<status, error>>
         ELSE Exit("err", "Setup")
    /\ UNCHANGED <<overflow_checks, hist, argc, file, termVars, docVars, viewVars,
                   event, frame>>

\* update_file that empties the document before it reads the file
update_file_ClearsFirst(f) ==
    IF f.kind = "ok"
    THEN LET d == SplitOf[f.content] IN
         [err |-> "none", left_side |-> d.left_side,
          right_side |-> d.right_side, length |-> d.length]
    ELSE [err |-> IF f.kind = "open_err" THEN "OpenFile"
                  ELSE "ReadFileContent",
          left_side |-> <<>>, right_side |-> <<>>, length |-> 0]

\* Program::update_file on what the path resolves to
update_file(f) ==
    IF f.kind = "ok"
    THEN LET d == SplitOf[f.content] IN
         [err |-> "none", left_side |-> d.left_side,
          right_side |-> d.right_side, length |-> d.length]
    ELSE [err |-> IF f.kind = "open_err" THEN "OpenFile"
                  ELSE "ReadFileContent",
          left_side |-> left_side, right_side |-> right_side,
          length |-> length]

\* let program = match Program::new(path) { Ok(p) => p,
\*                                          Err(e) => restore_panic!(..) }
ProgramNew ==
    /\ pc = "program_new"
    /\ LET r == update_file(file) IN
         /\ left_side' = r.left_side
         /\ right_side' = r.right_side
         /\ length' = r.length
         /\ error' = r.err
         /\ pc' = IF r.err = "none" THEN "while" ELSE "restore_panic"
    /\ UNCHANGED <<overflow_checks, hist, argc, file, termVars, status, viewVars,
                   event, frame>>

----------------------------------------------------------------------------
(* Program::run *)

\* a loop that draws only while nothing has been drawn yet
While_DrawOnce ==
    /\ pc = "while"
    /\ pc' = IF LoopCond
             THEN IF frame.drawn THEN "read" ELSE "draw"
             ELSE "restore_terminal"
    /\ UNCHANGED <<overflow_checks, hist, argc, file, termVars, status,
                   error, docVars, viewVars, event, frame>>

\* while !self.leave
While ==
    /\ pc = "while"
    /\ pc' = IF LoopCond THEN "draw" ELSE "restore_terminal"
    /\ UNCHANGED <<overflow_checks, hist, argc, file, termVars, status, error,
                   docVars, viewVars, event, frame>>

\* an arithmetic overflow under overflow checks: the thread panics and
\* main unwinds without reaching a restore macro
ArithmeticPanic ==
    /\ Exit("panic", "arithmetic")
    /\ UNCHANGED <<overflow_checks, hist, argc, file, termVars, docVars,
                   viewVars, frame>>

\* terminal.draw(|frame| self.draw(frame)).map_err(Error::Draw)?
Draw ==
    /\ pc = "draw"
    /\ IF SubU16(100, space).overflow /\ overflow_checks
       THEN ArithmeticPanic /\ UNCHANGED <<event, hist>>
       ELSE /\ frame' = RenderedFrame
            /\ hist' = AfterDraw
            /\ pc' = "read"
            /\ UNCHANGED <<overflow_checks, argc, file, termVars, status,
                           error, docVars, viewVars, event>>

DrawError ==
    /\ pc = "draw"
    /\ pc' = "restore_panic"
    /\ error' = "Draw"
    /\ UNCHANGED <<overflow_checks, hist, argc, file, termVars, status, docVars,
                   viewVars, event, frame>>

\* hist after a handler returned p: a panic observes nothing more
Observed(p, h) == IF p.fault /\ overflow_checks THEN hist ELSE h

\* the assignment of a handler's result to self
Apply(p) ==
    IF p.fault /\ overflow_checks
    THEN ArithmeticPanic
    ELSE /\ hidden' = p.hidden
         /\ reverse' = p.reverse
         /\ scroll' = p.scroll
         /\ space' = p.space
         /\ leave' = p.leave
         /\ pc' = "while"
         /\ UNCHANGED <<overflow_checks, argc, file, termVars, status,
                        error, docVars, frame>>

ScrollKeys == {UP_KEY, DOWN_KEY, "Up", "Down"}
SpaceKeys  == {INCREASE_SPACE_KEY, DECREASE_SPACE_KEY, "Left", "Right"}

\* Event::Key(key) => self.key_input(key.code)
KeyEvent ==
    /\ pc = "read"
    /\ \E key \in KeyCodes :
         /\ key \in ScrollKeys => scroll <= ScrollCap
         /\ key \in SpaceKeys => space <= SpaceCap
         /\ event' = [type |-> "Key", code |-> key]
         /\ hist' = Observed(key_input(Prog, key), AfterEvent("Key", key))
         /\ Apply(key_input(Prog, key))

\* Event::Mouse(mouse_event) => self.mouse_input(mouse_event.kind)
MouseEvent ==
    /\ pc = "read"
    /\ \E kind \in MouseKinds :
         /\ scroll <= ScrollCap
         /\ event' = [type |-> "Mouse", code |-> kind]
         /\ hist' = Observed(mouse_input(Prog, kind),
                             AfterEvent("Mouse", kind))
         /\ Apply(mouse_input(Prog, kind))

\* _ => ()
OtherEvent ==
    /\ pc = "read"
    /\ event' = [type |-> "Other", code |-> "Resize"]
    /\ hist' = AfterEvent("Other", "Resize")
    /\ pc' = "while"
    /\ UNCHANGED <<overflow_checks, argc, file, termVars, status, error,
                   docVars, viewVars, frame>>

\* event::read().map_err(Error::Event)?
EventError ==
    /\ pc = "read"
    /\ pc' = "restore_panic"
    /\ error' = "Event"
    /\ UNCHANGED <<overflow_checks, hist, argc, file, termVars, status, docVars,
                   viewVars, event, frame>>

----------------------------------------------------------------------------
(* restore_terminal! and restore_panic! *)

RestoreSteps == {"disable_raw_mode", "execute", "show_cursor", "none"}

\* the body of restore_terminal!, failing at step failAt ("none": Ok(()))
restore_terminal(failAt) ==
    /\ restores' = restores + 1
    /\ raw_mode' = IF failAt = "disable_raw_mode" THEN raw_mode ELSE FALSE
    /\ alt_screen' = CASE failAt = "disable_raw_mode" -> alt_screen
                       [] failAt = "execute" -> alt_screen
                       [] OTHER -> FALSE

\* Ok(_) => restore_terminal!(terminal)?,  then Ok(())
RestoreTerminal ==
    /\ pc = "restore_terminal"
    /\ \E failAt \in RestoreSteps :
         /\ restore_terminal(failAt)
         /\ IF failAt = "none" THEN Exit("ok", error)
            ELSE Exit("err", "Restore")
    /\ UNCHANGED <<overflow_checks, hist, argc, file, docVars, viewVars, event,
                   frame>>

\* Err(e) => restore_panic!(terminal, e)
RestorePanic ==
    /\ pc = "restore_panic"
    /\ \E failAt \in RestoreSteps :
         /\ restore_terminal(failAt)
         /\ IF failAt = "none" THEN Exit("panic", error)
            ELSE Exit("err", "Restore")
    /\ UNCHANGED <<overflow_checks, hist, argc, file, docVars, viewVars, event,
                   frame>>

----------------------------------------------------------------------------

Next ==
    \/ CheckArgs
    \/ EnableRawMode
    \/ EnterAlternateScreen
    \/ TerminalNew
    \/ ProgramNew
    \/ While
    \/ Draw
    \/ DrawError
    \/ KeyEvent
    \/ MouseEvent
    \/ OtherEvent
    \/ EventError
    \/ RestoreTerminal
    \/ RestorePanic

Spec == Init /\ [][Next]_vars

\* The process is scheduled: every call that does not wait for the user
\* returns.  event::read() blocks until an event arrives, so the event
\* actions carry no fairness.
Fairness ==
    /\ WF_vars(CheckArgs)
    /\ WF_vars(EnableRawMode)
    /\ WF_vars(EnterAlternateScreen)
    /\ WF_vars(TerminalNew)
    /\ WF_vars(ProgramNew)
    /\ WF_vars(While)
    /\ WF_vars(Draw \/ DrawError)
    /\ WF_vars(RestoreTerminal)
    /\ WF_vars(RestorePanic)

LiveSpec == Init /\ [][Next]_vars /\ Fairness

\* the splitter alone: Program::new applied to every text of at most
\* MaxLen characters, in a terminal that is already set up
SplitInit ==
    /\ overflow_checks \in BOOLEAN
    /\ argc = 2
    /\ file \in {[kind |-> "ok", content |-> t] : t \in Texts}
    /\ pc = "program_new"
    /\ raw_mode = TRUE /\ alt_screen = TRUE /\ restores = 0
    /\ status = "running" /\ error = "none"
    /\ left_side = <<>> /\ right_side = <<>> /\ length = 0
    /\ hidden = FALSE /\ reverse = FALSE /\ scroll = 0
    /\ space = DEFALUT_SPACE /\ leave = FALSE
    /\ event = [type |-> "none", code |-> "none"]
    /\ frame = NoFrame
    /\ hist = NoHist

SplitNext == ProgramNew

SplitSpec == SplitInit /\ [][SplitNext]_vars

----------------------------------------------------------------------------
(* The methods of Program called in any order on one Program value, as a  *)
(* caller of the type may do (update_file on a live value is a reload).   *)

ApiInit ==
    /\ overflow_checks \in BOOLEAN
    /\ argc = 2
    /\ file \in {f \in FileOutcomes : f.kind = "ok"}
    /\ pc = "api"
    /\ raw_mode = TRUE /\ alt_screen = TRUE /\ restores = 0
    /\ status = "running" /\ error = "none"
    /\ left_side = SplitLeft(file.content)
    /\ right_side = SplitRight(file.content)
    /\ length = SplitLength(file.content)
    /\ hidden = FALSE /\ reverse = FALSE /\ scroll = 0
    /\ space = DEFALUT_SPACE /\ leave = FALSE
    /\ event = [type |-> "none", code |-> "none"]
    /\ frame = NoFrame
    /\ hist = NoHist

\* the assignment of a handler's result to self, the caller going on
ApiApply(p) ==
    IF p.fault /\ overflow_checks
    THEN ArithmeticPanic
    ELSE /\ hidden' = p.hidden
         /\ reverse' = p.reverse
         /\ scroll' = p.scroll
         /\ space' = p.space
         /\ leave' = p.leave
         /\ UNCHANGED <<overflow_checks, hist, argc, file, pc, termVars,
                        status, error, docVars, frame>>

ApiKeyInput ==
    /\ pc = "api"
    /\ \E key \in KeyCodes :
         /\ key \in ScrollKeys => scroll <= ScrollCap
         /\ key \in SpaceKeys => space <= SpaceCap
         /\ event' = [type |-> "Call", code |-> "key_input"]
         /\ ApiApply(key_input(Prog, key))

ApiMouseInput ==
    /\ pc = "api"
    /\ \E kind \in MouseKinds :
         /\ scroll <= ScrollCap
         /\ event' = [type |-> "Call", code |-> "mouse_input"]
         /\ ApiApply(mouse_input(Prog, kind))

ApiUpdateFile ==
    /\ pc = "api"
    /\ \E f \in FileOutcomes :
         LET r == update_file(f) IN
         /\ file' = f
         /\ left_side' = r.left_side
         /\ right_side' = r.right_side
         /\ length' = r.length
         /\ error' = r.err
    /\ event' = [type |-> "Call", code |-> "update_file"]
    /\ UNCHANGED <<overflow_checks, hist, argc, pc, termVars, status,
                   viewVars, frame>>

ApiNext ==
    \/ ApiKeyInput
    \/ ApiMouseInput
    \/ ApiUpdateFile

ApiSpec == ApiInit /\ [][ApiNext]_vars

----------------------------------------------------------------------------
(* Properties *)

InLoop == pc \in {"while", "draw", "read"}
DownCodes == {DOWN_KEY, "Down", "ScrollDown"}
UpCodes == {UP_KEY, "Up", "ScrollUp"}
\* the step is the handling of one event
Handled == pc = "read" /\ pc' = "while"

\* C1: with line_count > 0, scroll_offset is at least 0 and at most
\* line_count - 1 in every reachable state.
C1_ScrollWithinLines ==
    length > 0 => (scroll >= 0 /\ scroll <= length - 1)

\* C2: space_ratio stays within [0, 100] and no space change faults.
C2_SpaceWithinPercent ==
    /\ space \in 0..100
    /\ ~(status = "panic" /\ error = "arithmetic"
         /\ event.type = "Key" /\ event.code \in SpaceKeys)

\* C3: on every exit that follows enabling raw mode, and where restoring
\* did not itself fail, the terminal has been restored exactly once when
\* the process ends and its diagnostic is surfaced.
C3_RestoredOnceOnEveryExit ==
    (pc = "exit" /\ status # "usage" /\ error # "Restore")
        => \/ (restores = 1 /\ ~raw_mode /\ ~alt_screen)
           \/ (restores = 0 /\ ~raw_mode /\ ~alt_screen /\ error = "Setup")

\* C4: at the bottom limit a further scroll down leaves scroll_offset
\* unchanged, and at 0 a further scroll up leaves it unchanged.
C4_IdempotentAtBoundary ==
    [][(Handled /\ length > 0)
        => /\ (event'.code \in DownCodes /\ scroll = length - 1)
                => scroll' = scroll
           /\ (event'.code \in UpCodes /\ scroll = 0)
                => scroll' = scroll]_vars

\* C5: with line_count = 0 a scroll down completes without a fault and
\* leaves scroll_offset at 0.
C5_EmptyFileScrollDown ==
    (length = 0 /\ event.code \in DownCodes)
        => (scroll = 0 /\ error # "arithmetic")

\* C6: a drawn frame has both panes when hidden is false and exactly one
\* when hidden is true, and a draw after reverse was toggled while hidden
\* renders the other pane than the draw before it.
C6_SuppressionRule ==
    /\ [](pc = "read" =>
            /\ ~hidden => FramePanes = {"left", "right"}
            /\ hidden => Cardinality(FramePanes) = 1)
    /\ [][(pc = "draw" /\ pc' = "read" /\ frame.drawn /\ hidden
           /\ event = [type |-> "Key", code |-> REVERSE_KEY])
          => (FramePanes' # FramePanes
              /\ Cardinality(FramePanes') = 1)]_vars

C6_Witness ==
    /\ pc = "read" /\ hidden /\ reverse
    /\ event = [type |-> "Key", code |-> REVERSE_KEY]
    /\ FramePanes = {"right"}

\* C7 as stated: the left pane holds prompt_text when reverse is false and
\* detail_text when reverse is true, the right pane the other text.
C7_LeftContentFollowsReverse ==
    pc = "read" =>
        /\ frame.left.shown =>
             frame.left.text = (IF reverse THEN right_side ELSE left_side)
        /\ frame.right.shown =>
             frame.right.text = (IF reverse THEN left_side ELSE right_side)

\* C7 amended: the left pane, when rendered, holds prompt_text and the
\* right pane, when rendered, holds detail_text, whatever reverse is;
\* reverse decides only which pane is rendered while hidden.
C7_PaneContentFixed ==
    pc = "read" =>
        /\ frame.left.shown = ShowLeft(hidden, reverse)
        /\ frame.right.shown = ShowRight(hidden, reverse)
        /\ frame.left.shown => frame.left.text = left_side
        /\ frame.right.shown => frame.right.text = right_side

C7_Witness ==
    /\ pc = "read" /\ reverse /\ ~hidden
    /\ left_side # right_side
    /\ frame.left.text = left_side /\ frame.right.text = right_side

\* C8: leave changes only in the handling of an Escape key event, and only
\* from false to true.
C8_LeaveOnlyByEscape ==
    [][leave' # leave
        => (Handled /\ ~leave /\ leave'
            /\ event' = [type |-> "Key", code |-> EXIT_KEY])]_vars

C8_Witness ==
    leave /\ event = [type |-> "Key", code |-> EXIT_KEY] /\ pc = "while"

\* C9: once leave is true the loop neither draws nor reads again, and no
\* view field, event or frame changes.
C9_NoEventAfterEscape ==
    [][leave => (pc' \notin {"draw", "read"}
                 /\ UNCHANGED <<viewVars, docVars, event, frame>>)]_vars

C9_Witness ==
    leave /\ pc = "exit" /\ status = "ok" /\ restores = 1

\* the "\n"-terminated segments of a text, nothing stripped
RECURSIVE SegmentsFrom(_, _, _, _)
SegmentsFrom(s, i, cur, acc) ==
    IF i > Len(s)
    THEN IF cur = <<>> THEN acc ELSE Append(acc, cur)
    ELSE IF s[i] = NL
         THEN SegmentsFrom(s, i + 1, <<>>, Append(acc, cur))
         ELSE SegmentsFrom(s, i + 1, Append(cur, s[i]), acc)

Segments(s) == SegmentsFrom(s, 1, <<>>, <<>>)

\* C10: prompt_text and detail_text have line_count lines each; at every
\* index the input line is in prompt_text (detail_text empty there) if it
\* contains ':' or is exactly '-', else in detail_text (prompt_text empty
\* there); no index is non-empty in both.
C10_SplitPartitionsLines ==
    pc = "while" =>
        LET lines == Lines(file.content)
            L == Segments(left_side)
            R == Segments(right_side)
        IN  /\ length = Len(lines)
            /\ Len(L) = length
            /\ Len(R) = length
            /\ \A i \in 1..Len(lines) :
                 /\ IF Contains(lines[i], ":") \/ lines[i] = <<"-">>
                    THEN L[i] = lines[i] /\ R[i] = <<>>
                    ELSE R[i] = lines[i] /\ L[i] = <<>>
                 /\ ~(L[i] # <<>> /\ R[i] # <<>>)

C10_Witness ==
    /\ pc = "while"
    /\ Lines(file.content) = << <<"-">>, <<"a">> >>
    /\ Segments(left_side) = << <<"-">>, <<>> >>
    /\ Segments(right_side) = << <<>>, <<"a">> >>

\* C11: with line_count = 3, ten scroll_down(1) calls in a row from the
\* fresh state end with scroll_offset = 2.
C11_ScenarioB ==
    (length = 3 /\ hist.streak = 10) => scroll = 2

C11_Witness ==
    /\ length = 3 /\ hist.streak = 10 /\ scroll = 2
    /\ pc = "read" /\ event.code \in {DOWN_KEY, "Down"}

\* C12: after two consecutive space keys hidden is what it was before
\* them, after two consecutive 'r' keys reverse is what it was before
\* them, and the next draw renders the panes rendered before them.
C12_ToggleLaws ==
    hist.toggle.count = 2 =>
        /\ hidden = hist.toggle.hidden
        /\ reverse = hist.toggle.reverse
        /\ pc = "read" =>
              /\ FramePanes = hist.toggle.panes
              /\ frame.left.shown => frame.left.text = left_side
              /\ frame.right.shown => frame.right.text = right_side

C12_Witness ==
    /\ hist.toggle.count = 2 /\ hist.toggle.key = HIDE_KEY
    /\ hist.toggle.hidden /\ hidden /\ reverse
    /\ pc = "read" /\ FramePanes = {"right"}
    /\ hist.toggle.panes = {"right"}

\* C13: with an argument count other than one file name the process only
\* prints the usage and exits with code 0: raw mode, alternate screen and
\* mouse capture are never enabled, no file is read, nothing is drawn and
\* no event is read.
C13_UsageOnly ==
    argc # 2 =>
        /\ pc \in {"main", "exit"}
        /\ pc = "exit" => status = "usage"
        /\ pc = "main" => status = "running"
        /\ ~raw_mode /\ ~alt_screen /\ restores = 0
        /\ error = "none"
        /\ left_side = <<>> /\ right_side = <<>> /\ length = 0
        /\ frame = NoFrame /\ hist = NoHist
        /\ event.type = "none"

C13_Witness ==
    argc = 3 /\ pc = "exit" /\ status = "usage" /\ ~raw_mode

\* the action table of the input mapper, event by event
TableEffect(p, type, code) ==
    CASE type = "Key" /\ code \in {"j", "Down"} -> scroll_down(p, 1)
      [] type = "Key" /\ code \in {"k", "Up"} -> scroll_up(p, 1)
      [] type = "Mouse" /\ code = "ScrollUp" -> scroll_up(p, 5)
      [] type = "Mouse" /\ code = "ScrollDown" -> scroll_down(p, 5)
      [] type = "Key" /\ code \in {"h", "Left"} ->
            [p EXCEPT !.space = (p.space - 5) % U16,
                      !.fault = p.space < 5]
      [] type = "Key" /\ code \in {"l", "Right"} ->
            [p EXCEPT !.space = (p.space + 5) % U16,
                      !.fault = p.space + 5 >= U16]
      [] type = "Key" /\ code = " " -> [p EXCEPT !.hidden = ~p.hidden]
      [] type = "Key" /\ code = "r" -> [p EXCEPT !.reverse = ~p.reverse]
      [] type = "Key" /\ code = "Esc" -> [p EXCEPT !.leave = TRUE]
      [] OTHER -> p

C15_OneFieldPerEvent ==
    [][pc = "read" =>
        /\ UNCHANGED docVars
        /\ pc' # "while" => UNCHANGED viewVars
        /\ pc' = "while" =>
             LET type == event'.type
                 code == event'.code
             IN  CASE (type = "Key" /\ code \in ScrollKeys)
                      \/ (type = "Mouse"
                          /\ code \in {"ScrollUp", "ScrollDown"})
                        -> UNCHANGED <<hidden, reverse, space, leave>>
                   [] type = "Key" /\ code = HIDE_KEY
                        -> UNCHANGED <<reverse, scroll, space, leave>>
                   [] type = "Key" /\ code = REVERSE_KEY
                        -> UNCHANGED <<hidden, scroll, space, leave>>
                   [] type = "Key" /\ code \in SpaceKeys
                        -> UNCHANGED <<hidden, reverse, scroll, leave>>
                   [] type = "Key" /\ code = EXIT_KEY
                        -> UNCHANGED <<hidden, reverse, scroll, space>>
                   [] OTHER -> UNCHANGED viewVars]_vars

C15_Witness ==
    /\ pc = "while" /\ event = [type |-> "Mouse", code |-> "Moved"]
    /\ scroll = 3 /\ hidden /\ reverse /\ space = 45

\* C16: every draw splits the width into space and 100 - space, both
\* within [0, 100] and summing to 100, and 100 - space never underflows.
C16_WidthSplit ==
    /\ pc = "read" =>
          /\ frame.widths[1] = space
          /\ frame.widths[2] = 100 - space
          /\ frame.widths[1] \in 0..100
          /\ frame.widths[2] \in 0..100
          /\ frame.widths[1] + frame.widths[2] = 100
    /\ ~(pc = "exit" /\ error = "arithmetic" /\ space > 100)

\* C17: the loop alternates draw and event: when an event is read exactly
\* one draw has happened since the previous event (or loop start) and the
\* frame shows the current view; events are read and applied only then;
\* after an event other than Escape the next step of the loop is a draw,
\* and after Escape there is none.
C17_DrawEventAlternate ==
    /\ [](pc = "read" => (hist.draws = 1 /\ frame = RenderedFrame))
    /\ [](pc \in {"while", "draw"} => hist.draws = 0)
    /\ [][(event' # event \/ viewVars' # viewVars)
           => (pc = "read" /\ hist.draws = 1)]_vars
    /\ [][pc = "while"
           => pc' = (IF leave THEN "restore_terminal" ELSE "draw")]_vars
    /\ [][pc = "draw" => pc' \in {"read", "restore_panic", "exit"}]_vars

C17_Witness ==
    /\ pc = "read" /\ hist.draws = 1 /\ hist.streak = 2
    /\ frame = RenderedFrame /\ frame.left.scroll = 2

\* the document fields that belong to a readable file
DocumentOf(f) ==
    LET d == SplitOf[f.content] IN <<d.left_side, d.right_side, d.length>>

\* C20: update_file that fails to open or read returns OpenFile or
\* ReadFileContent and leaves every Program field unchanged; update_file
\* that succeeds replaces left_side, right_side and length by the split
\* of the content and leaves scroll, hidden, reverse, space and leave
\* unchanged.
C20_UpdateFileAtomic ==
    [][(pc = "api" /\ event'.code = "update_file") =>
        /\ UNCHANGED viewVars
        /\ file'.kind = "open_err" =>
              (error' = "OpenFile" /\ UNCHANGED docVars)
        /\ file'.kind = "read_err" =>
              (error' = "ReadFileContent" /\ UNCHANGED docVars)
        /\ file'.kind = "ok" =>
              /\ error' = "none"
              /\ <<left_side', right_side', length'>> = DocumentOf(file')]_vars

C20_Witness ==
    /\ pc = "api" /\ event.code = "update_file"
    /\ file.kind = "read_err" /\ error = "ReadFileContent"
    /\ length = 3 /\ left_side = SplitLeft(Content(3))
    /\ scroll = 2 /\ hidden /\ reverse /\ space = 45 /\ leave

\* C18: scroll_offset is within [0, max(line_count - 1, 0)] in every
\* reachable state.
C18_ScrollWithinDocument ==
    scroll >= 0 /\ scroll <= (IF length > 0 THEN length - 1 ELSE 0)

\* C19: once Escape has been handled the loop ends and the terminal is
\* restored; and the loop ends only after Escape or a draw / event I/O
\* failure, no other event ends it.
C19_EndsByEscapeOnly ==
    /\ leave ~> (pc = "exit" /\ restores = 1)
    /\ [][(InLoop /\ ~InLoop')
           => (leave \/ error' \in {"Draw", "Event"})]_vars
====
